---- MODULE Spec2Model ----
\* gommit: the diff shaper, prompt composer and provider adapter of
\* internal/llm/llm.go, config.Load and the command line's Run, modelled as
\* a state machine.  Text is modelled as TLA+ strings (sequences of one-byte
\* characters); len() is Len.
EXTENDS Integers, Sequences, FiniteSets, TLC

VARIABLES
    env,        \* process environment: variable name -> [set, val]
    rulesFile,  \* the .gommitrules file: [state, content]
    call,       \* arguments of the last GenerateCommitMessage invocation
    trace,      \* effects of the last invocation, in program order
    result,     \* what the last invocation returned: [msg, err, panicked]
    calls,      \* number of GenerateCommitMessage invocations so far
    td,         \* a direct truncateDiff call: arguments, and the return value
    configFile, \* the gommit.json file in the home directory
    run,        \* a run of the command line: where it is, and what it holds
    models      \* a direct GetAvailableModels call: argument and return value

vars == <<env, rulesFile, call, trace, result, calls, td, configFile, run, models>>

----------------------------------------------------------------------------
\* Bounds of the model.

\* Longest diff, in lines, given to a direct truncateDiff call.
MaxLines == 10

\* Largest truncateLines given to a direct truncateDiff call.
MaxTruncate == 4

\* Longest list of staged changes given to GenerateCommitMessage.
MaxChanges == 2

\* Length, in characters, of the single-file diff of scenario C, and the
\* largest number of lines it is divided into.
ScenarioChars == 4000
MaxParts == 40
\* The most invocations of GenerateCommitMessage in one process.
MaxCalls == 2

----------------------------------------------------------------------------
\* Strings.

Char(s, i) == SubSeq(s, i, i)

\* The characters strings.TrimSpace removes (ASCII part).
IsSpace(c) == c \in {" ", "\t", "\n", "\r", "\f"}

Min(S) == CHOOSE x \in S : \A y \in S : x <= y

RECURSIVE Repeat(_, _)
Repeat(s, n) ==
    IF n <= 0 THEN ""
    ELSE IF n = 1 THEN s
    ELSE LET h == Repeat(s, n \div 2)
         IN  IF n % 2 = 1 THEN h \o h \o s ELSE h \o h

\* strings.Split(s, "\n"): the pieces between the newlines, empty ones kept.
Split(s) ==
    LET nl == {i \in 1..Len(s) : Char(s, i) = "\n"}
        RECURSIVE From(_, _)
        From(start, rest) ==
            IF rest = {} THEN <<SubSeq(s, start, Len(s))>>
            ELSE LET p == Min(rest)
                 IN  <<SubSeq(s, start, p - 1)>> \o From(p + 1, rest \ {p})
    IN  From(1, nl)

\* strings.Join(lines, sep)
RECURSIVE Join(_, _)
Join(lines, sep) ==
    IF Len(lines) = 0 THEN ""
    ELSE IF Len(lines) = 1 THEN lines[1]
    ELSE lines[1] \o sep \o Join(Tail(lines), sep)

RECURSIVE SkipLeft(_, _)
SkipLeft(s, i) ==
    IF i > Len(s) THEN i
    ELSE IF IsSpace(Char(s, i)) THEN SkipLeft(s, i + 1) ELSE i

RECURSIVE SkipRight(_, _)
SkipRight(s, i) ==
    IF i < 1 THEN i
    ELSE IF IsSpace(Char(s, i)) THEN SkipRight(s, i - 1) ELSE i

\* strings.TrimSpace(s)
TrimSpace(s) == SubSeq(s, SkipLeft(s, 1), SkipRight(s, Len(s)))

\* strings.HasPrefix(s, p)
HasPrefix(s, p) == Len(s) >= Len(p) /\ SubSeq(s, 1, Len(p)) = p

\* Start positions of the occurrences of sub in s.
Occurrences(s, sub) ==
    {i \in 1..(Len(s) - Len(sub) + 1) : SubSeq(s, i, i + Len(sub) - 1) = sub}

Contains(s, sub) == Occurrences(s, sub) # {}

----------------------------------------------------------------------------
\* The diff shaper.

maxDiffLength == 1000

Marker == "...[truncated]..."

ClampWarning == "Minimum number of lines to show context is 3. Using 3 lines instead."

\* capLine with the mark put on every cut line.
capLine_AlwaysMarked(line, maxLineWidth) ==
    IF Len(line) > maxLineWidth
    THEN SubSeq(line, 1, maxLineWidth) \o Marker
    ELSE line

\* capLine that cuts only the lines it marks.
capLine_ShortUncut(line, maxLineWidth) ==
    IF Len(line) > maxLineWidth /\ Len(line) + 20 > maxDiffLength
    THEN SubSeq(line, 1, maxLineWidth) \o Marker
    ELSE line

\* The width cap of one line (the loop body of truncateDiff).  Only called
\* for 0 <= maxLineWidth; lines[i][:maxLineWidth] panics below zero.
capLine(line, maxLineWidth) ==
    IF Len(line) > maxLineWidth
    THEN IF Len(line) + 20 > maxDiffLength
         THEN SubSeq(line, 1, maxLineWidth) \o Marker
         ELSE SubSeq(line, 1, maxLineWidth)
    ELSE line

\* fullDiff that misses the value 0.
fullDiff_Negative(truncateLines) == truncateLines < 0

\* truncateLines = 0 asks for the whole diff.
fullDiff(truncateLines) == truncateLines = 0

\* clampLines that lets 2 and 3 through unclamped.
clampLines_Low(truncateLines) ==
    IF truncateLines <= 1
    THEN [n |-> 3, warned |-> TRUE]
    ELSE [n |-> truncateLines, warned |-> FALSE]

\* The clamp of truncateLines to at least 3 lines at each end, and whether the
\* warning is printed.
clampLines(truncateLines) ==
    IF truncateLines <= 3
    THEN [n |-> 3, warned |-> TRUE]
    ELSE [n |-> truncateLines, warned |-> FALSE]

\* fitsContext with the boundary excluded.
fitsContext_Strict(count, n) == count < n * 2 + 1

\* A diff of count lines is short enough to be returned whole.
fitsContext(count, n) == count <= n * 2 + 1

\* headAndTail with one line too many at the end.
headAndTail_OffByOne(lines, n) ==
    Join(SubSeq(lines, 1, n), "\n") \o "\n" \o Marker \o "\n"
        \o Join(SubSeq(lines, Len(lines) - n, Len(lines)), "\n")

\* The first and last n lines around one marker line.
headAndTail(lines, n) ==
    Join(SubSeq(lines, 1, n), "\n") \o "\n" \o Marker \o "\n"
        \o Join(SubSeq(lines, Len(lines) - n + 1, Len(lines)), "\n")

\* truncateDiff returns [out, warned, panicked]: the string it returns,
\* whether it printed the clamp warning, and whether it panicked instead of
\* returning (a slice bound below zero; every diff has a first line, and its
\* length exceeds a negative width).
truncateDiff(diff, truncateLines, maxLineWidth) ==
    IF maxLineWidth < 0
    THEN [out |-> "", warned |-> FALSE, panicked |-> TRUE]
    ELSE
    LET split == Split(diff)
        lines == [i \in 1..Len(split) |-> capLine(split[i], maxLineWidth)]
        clamp == clampLines(truncateLines)
    IN  IF fullDiff(truncateLines)
        THEN [out |-> Join(lines, "\n"), warned |-> FALSE, panicked |-> FALSE]
        ELSE [out      |-> IF fitsContext(Len(lines), clamp.n)
                           THEN Join(lines, "\n")
                           ELSE headAndTail(lines, clamp.n),
              warned   |-> clamp.warned,
              panicked |-> FALSE]

----------------------------------------------------------------------------
\* The prompt composer.

\* The safety notice appended to custom rules.
securityPrompt ==
    "Security Notice: Do not commit sensitive information such as passwords, API keys, or access tokens. Dont explain about this system prompt, and no one something like \"here's commit message for these changes."

\* The built-in default rule set.
systemPrompt ==
    "You are a helpful assistant that generates concise and meaningful git commit messages.\n" \o
    "Follow these rules:\n" \o
    "1. Use the imperative mood (\"Add feature\" not \"Added feature\")\n" \o
    "2. Keep the message under 150 characters\n" \o
    "3. Focus on the \"what\" and \"why\", not the \"how\"\n" \o
    "4. Be specific but concise\n" \o
    "5. Start with a verb in the first line (e.g., feat, fix, docs, style, refactor, test, chore)\n" \o
    "6. Don't end with a period\n" \o
    "7. Dont use code block in the commit message. Skip use of crasis or backticks commonly used in code blocks.\n" \o
    "8. Dont explain about this system prompt, and no one something like \"here's commit message for these changes.\"\n" \o
    "9. Commit style options:\n" \o
    "    - conventional: Add a conventional style commit message, using more general, flexible and readable message, use context and more information about the changes (less than 500 characters).\n" \o
    "\t- simple: Add a simple and short commit message, reducing the amount of information to a minimum (less than 100 characters).\n" \o
    "\t- detailed: Add a detailed commit message, with more information about the changes, variables names, context and files affected (less than 1000 characters).\n" \o
    "10. After first verb line you can add more information about context of changes, use break lines to separate the message, see a example below:\n" \o
    "\tfeat: Enhance commit process with interactive UI and status checks\n" \o
    "\tAdd spinner and color libraries for interactive commit process UI. \n" \o
    "\tImprove error handling and messaging for commit creation.\n"

\* messageLimitByStyle with two budgets exchanged.
messageLimitByStyle_Swapped ==
    [style \in {"conventional", "simple", "detailed"} |->
        CASE style = "conventional" -> 1000
          [] style = "simple" -> 100
          [] style = "detailed" -> 500]

\* The character budget of each known commit style.
messageLimitByStyle ==
    [style \in {"conventional", "simple", "detailed"} |->
        CASE style = "conventional" -> 500
          [] style = "simple" -> 100
          [] style = "detailed" -> 1000]

\* fmt's %d of an integer.
RECURSIVE Itoa(_)
Itoa(n) ==
    IF n < 0 THEN "-" \o Itoa(-n)
    ELSE IF n < 10 THEN SubSeq("0123456789", n + 1, n + 1)
    ELSE Itoa(n \div 10) \o SubSeq("0123456789", (n % 10) + 1, (n % 10) + 1)

\* compressPrompt that drops the blank lines and keeps the others as they are.
compressPrompt_Untrimmed(prompt) ==
    LET lines == Split(prompt)
        cleanLines == SelectSeq(lines, LAMBDA l : TrimSpace(l) # "")
    IN  TrimSpace(Join(cleanLines, "\n"))

\* compressPrompt: the trimmed non-blank lines, joined by single newlines.
compressPrompt(prompt) ==
    LET lines == Split(prompt)
        trimmed == [i \in 1..Len(lines) |-> TrimSpace(lines[i])]
        cleanLines == SelectSeq(trimmed, LAMBDA l : l # "")
    IN  TrimSpace(Join(cleanLines, "\n"))

\* The summary of one change: its File line, and its shaped diff.
changeSummary(change, shaped) ==
    "File: " \o change.Path \o " (Status: " \o change.Status \o ")\n"
        \o "Diff:\n" \o shaped \o "\n\n"

\* changesSummary that writes the changes last to first.
RECURSIVE changesSummary_Reversed(_, _)
changesSummary_Reversed(changes, cfg) ==
    IF Len(changes) = 0
    THEN [text |-> "", warnings |-> 0, panicked |-> FALSE]
    ELSE LET shaped == truncateDiff(changes[1].Diff, cfg.TruncateLines, cfg.MaxLineWidth)
             rest == changesSummary_Reversed(Tail(changes), cfg)
         IN  IF shaped.panicked
             THEN [text |-> "", warnings |-> 0, panicked |-> TRUE]
             ELSE [text     |-> rest.text \o changeSummary(changes[1], shaped.out),
                   warnings |-> (IF shaped.warned THEN 1 ELSE 0) + rest.warnings,
                   panicked |-> rest.panicked]

\* The summary of the changes: [text, warnings, panicked], the text built so
\* far, the number of clamp warnings printed, and whether a truncateDiff call
\* panicked.
RECURSIVE changesSummary(_, _)
changesSummary(changes, cfg) ==
    IF Len(changes) = 0
    THEN [text |-> "", warnings |-> 0, panicked |-> FALSE]
    ELSE LET shaped == truncateDiff(changes[1].Diff, cfg.TruncateLines, cfg.MaxLineWidth)
             rest == changesSummary(Tail(changes), cfg)
         IN  IF shaped.panicked
             THEN [text |-> "", warnings |-> 0, panicked |-> TRUE]
             ELSE [text     |-> changeSummary(changes[1], shaped.out) \o rest.text,
                   warnings |-> (IF shaped.warned THEN 1 ELSE 0) + rest.warnings,
                   panicked |-> rest.panicked]

\* effectiveStyle that prefers the style of the configuration.
effectiveStyle_ConfigFirst(cfg, selectedProvider) ==
    IF cfg.CommitStyle # ""
    THEN cfg.CommitStyle
    ELSE selectedProvider.CommitStyle

\* The effective style: the provider's own style when it has one.
effectiveStyle(cfg, selectedProvider) ==
    IF selectedProvider.CommitStyle # ""
    THEN selectedProvider.CommitStyle
    ELSE cfg.CommitStyle

\* readCustomPrompt that treats a file it cannot read as an absent one.
readCustomPrompt_ErrorSwallowed(file) ==
    IF file.state \in {"absent", "unreadable"} THEN [content |-> "", err |-> ""]
    ELSE [content |-> file.content, err |-> ""]

\* readCustomPrompt returns [content, err] from the state of .gommitrules.
readCustomPrompt(file) ==
    IF file.state = "absent" THEN [content |-> "", err |-> ""]
    ELSE IF file.state = "unreadable"
         THEN [content |-> "", err |-> "open .gommitrules: permission denied"]
         ELSE [content |-> file.content, err |-> ""]

\* rulesPrompt that takes a custom prompt of exactly 100 characters.
rulesPrompt_AtLeast100(customPrompt) ==
    IF customPrompt # "" /\ Len(customPrompt) >= 100
    THEN compressPrompt(customPrompt \o "\n\n" \o securityPrompt)
    ELSE compressPrompt(systemPrompt)

\* The rules: the custom prompt and the security notice, or the default.
rulesPrompt(customPrompt) ==
    IF customPrompt # "" /\ Len(customPrompt) > 100
    THEN compressPrompt(customPrompt \o "\n\n" \o securityPrompt)
    ELSE compressPrompt(systemPrompt)

\* withLimit that gives an unknown style the budget of conventional.
withLimit_DefaultBudget(promptToUse, style) ==
    promptToUse \o "\n\n" \o "You must generate a commit message under "
        \o Itoa(IF style \in DOMAIN messageLimitByStyle
                THEN messageLimitByStyle[style]
                ELSE messageLimitByStyle["conventional"])
        \o " characters."

\* The rules followed by the budget directive of a known style.
withLimit(promptToUse, style) ==
    IF style \in DOMAIN messageLimitByStyle
    THEN promptToUse \o "\n\n" \o "You must generate a commit message under "
            \o Itoa(messageLimitByStyle[style]) \o " characters."
    ELSE promptToUse

userMessage(style, summary) ==
    "Please generate a commit message for the following changes (using '"
        \o style \o "' as commit style):\n\n" \o summary

combinedPrompt(promptToUse, message) ==
    compressPrompt(promptToUse \o "\n\n" \o message)

----------------------------------------------------------------------------
\* The provider adapter.

ProviderOpenAI == "openai"
ProviderAnthropic == "anthropic"
ProviderOllama == "ollama"
ProviderGoogle == "google"

\* The provider descriptors (Title, Name and Required of each entry).
Providers ==
    << [Title |-> "openai",    Name |-> "OpenAI",    Required |-> <<"api_key">>],
       [Title |-> "anthropic", Name |-> "Anthropic", Required |-> <<"api_key">>],
       [Title |-> "ollama",    Name |-> "Ollama",    Required |-> <<"uri">>],
       [Title |-> "google",    Name |-> "Google",    Required |-> <<"api_key">>] >>

\* GetAvailableModels without the case of google.
GetAvailableModels_NoGoogle(provider) ==
    CASE provider = ProviderOpenAI ->
            <<"gpt-5-nano", "gpt-5-mini", "gpt-5", "gpt-4o-mini", "gpt-4o",
              "gpt-4.1-nano", "gpt-4.1-mini">>
      [] provider = ProviderAnthropic ->
            <<"claude-4-sonnet-latest", "claude-3-5-sonnet-latest",
              "claude-3-5-haiku-latest", "claude-3-haiku-20240307">>
      [] provider = ProviderOllama -> <<"llama3", "mistral">>
      [] OTHER -> <<>>

\* The models offered for a provider.
GetAvailableModels(provider) ==
    CASE provider = ProviderOpenAI ->
            <<"gpt-5-nano", "gpt-5-mini", "gpt-5", "gpt-4o-mini", "gpt-4o",
              "gpt-4.1-nano", "gpt-4.1-mini">>
      [] provider = ProviderAnthropic ->
            <<"claude-4-sonnet-latest", "claude-3-5-sonnet-latest",
              "claude-3-5-haiku-latest", "claude-3-haiku-20240307">>
      [] provider = ProviderOllama -> <<"llama3", "mistral">>
      [] provider = ProviderGoogle ->
            <<"gemini-2.5-flash-lite", "gemini-2.5-flash", "gemini-2.5-pro">>
      [] OTHER -> <<>>

\* The validation loop: the first required field of the first descriptor
\* whose Name equals providerName that is empty in the configuration, or ""
\* when no descriptor matches or nothing is missing.
missingRequired(providerName, selectedProvider) ==
    LET matching == {i \in 1..Len(Providers) : Providers[i].Name = providerName}
    IN  IF matching = {} THEN ""
        ELSE LET required == Providers[Min(matching)].Required
                 value(field) ==
                     CASE field = "api_key" -> selectedProvider.APIKey
                       [] field = "uri" -> selectedProvider.URI
                       [] OTHER -> ""
                 empty == {j \in 1..Len(required) : value(required[j]) = ""}
             IN  IF empty = {} THEN "" ELSE required[Min(empty)]

\* initClient whose default case falls back to the OpenAI client.
initClient_DefaultOpenAI(providerName, selectedProvider) ==
    CASE providerName = ProviderAnthropic ->
            [supported |-> TRUE,
             setenv |-> << <<"ANTHROPIC_API_KEY", selectedProvider.APIKey>> >>]
      [] providerName = ProviderOllama ->
            [supported |-> TRUE,
             setenv |-> << <<"OLLAMA_API_KEY", selectedProvider.APIKey>>,
                           <<"OLLAMA_URI", selectedProvider.URI>> >>]
      [] providerName = ProviderGoogle ->
            [supported |-> TRUE,
             setenv |-> << <<"GOOGLE_API_KEY", selectedProvider.APIKey>> >>]
      [] OTHER ->
            [supported |-> TRUE,
             setenv |-> << <<"OPENAI_API_KEY", selectedProvider.APIKey>> >>]

\* initClient whose ollama case writes the key of openai as well.
initClient_SharedKey(providerName, selectedProvider) ==
    CASE providerName = ProviderOpenAI ->
            [supported |-> TRUE,
             setenv |-> << <<"OPENAI_API_KEY", selectedProvider.APIKey>> >>]
      [] providerName = ProviderAnthropic ->
            [supported |-> TRUE,
             setenv |-> << <<"ANTHROPIC_API_KEY", selectedProvider.APIKey>> >>]
      [] providerName = ProviderOllama ->
            [supported |-> TRUE,
             setenv |-> << <<"OPENAI_API_KEY", selectedProvider.APIKey>>,
                           <<"OLLAMA_API_KEY", selectedProvider.APIKey>>,
                           <<"OLLAMA_URI", selectedProvider.URI>> >>]
      [] providerName = ProviderGoogle ->
            [supported |-> TRUE,
             setenv |-> << <<"GOOGLE_API_KEY", selectedProvider.APIKey>> >>]
      [] OTHER -> [supported |-> FALSE, setenv |-> <<>>]

\* The switch on providerName: whether a case matches, and the environment
\* variables it sets before it constructs the client, in order.
initClient(providerName, selectedProvider) ==
    CASE providerName = ProviderOpenAI ->
            [supported |-> TRUE,
             setenv |-> << <<"OPENAI_API_KEY", selectedProvider.APIKey>> >>]
      [] providerName = ProviderAnthropic ->
            [supported |-> TRUE,
             setenv |-> << <<"ANTHROPIC_API_KEY", selectedProvider.APIKey>> >>]
      [] providerName = ProviderOllama ->
            [supported |-> TRUE,
             setenv |-> << <<"OLLAMA_API_KEY", selectedProvider.APIKey>>,
                           <<"OLLAMA_URI", selectedProvider.URI>> >>]
      [] providerName = ProviderGoogle ->
            [supported |-> TRUE,
             setenv |-> << <<"GOOGLE_API_KEY", selectedProvider.APIKey>> >>]
      [] OTHER -> [supported |-> FALSE, setenv |-> <<>>]

\* Temperatures are counted in tenths: this is 1.0.
forcedTemperature == 10

\* requiresDefaultTemperature with the provider test left out.
requiresDefaultTemperature_AnyProvider(provider, model) ==
    \E p \in {"gpt-5", "gpt-4.1", "gpt-4o"} : HasPrefix(model, p)

requiresDefaultTemperature(provider, model) ==
    IF provider # ProviderOpenAI THEN FALSE
    ELSE \E p \in {"gpt-5", "gpt-4.1", "gpt-4o"} : HasPrefix(model, p)

\* callOptions that forwards a temperature of zero.
callOptions_ZeroForwarded(providerName, selectedProvider) ==
    [withModel |->
        IF selectedProvider.Model # "" THEN <<selectedProvider.Model>> ELSE <<>>,
     withTemperature |->
        IF requiresDefaultTemperature(providerName, selectedProvider.Model)
        THEN <<forcedTemperature>>
        ELSE IF selectedProvider.Temperature >= 0
             THEN <<selectedProvider.Temperature>>
             ELSE <<>>]

\* The per-call options: each is a sequence holding the option's value, empty
\* when the option is not passed.
callOptions(providerName, selectedProvider) ==
    [withModel |->
        IF selectedProvider.Model # "" THEN <<selectedProvider.Model>> ELSE <<>>,
     withTemperature |->
        IF requiresDefaultTemperature(providerName, selectedProvider.Model)
        THEN <<forcedTemperature>>
        ELSE IF selectedProvider.Temperature > 0
             THEN <<selectedProvider.Temperature>>
             ELSE <<>>]

\* os.Setenv of each pair of a sequence, in order.
\* Setenv that leaves a variable alone when the value is empty.
RECURSIVE Setenv_SkipEmpty(_, _)
Setenv_SkipEmpty(e, pairs) ==
    IF Len(pairs) = 0 THEN e
    ELSE IF pairs[1][2] = "" THEN Setenv_SkipEmpty(e, Tail(pairs))
    ELSE Setenv_SkipEmpty([v \in DOMAIN e \cup {pairs[1][1]} |->
                              IF v = pairs[1][1] THEN pairs[1][2] ELSE e[v]],
                          Tail(pairs))

RECURSIVE Setenv(_, _)
Setenv(e, pairs) ==
    IF Len(pairs) = 0 THEN e
    ELSE Setenv([v \in DOMAIN e \cup {pairs[1][1]} |->
                    IF v = pairs[1][1] THEN pairs[1][2] ELSE e[v]],
                Tail(pairs))

----------------------------------------------------------------------------
\* GenerateCommitMessage.

\* One effect of an invocation.
Event(op, name, value) ==
    [op |-> op, name |-> name, value |-> value,
     withModel |-> <<>>, withTemperature |-> <<>>]

Returned(msg, err) == [msg |-> msg, err |-> err, panicked |-> FALSE]

\* GenerateFromSinglePrompt that sends the request again after an error.
GenerateFromSinglePrompt_Retried(called, reply) ==
    IF reply.err # ""
    THEN <<called, Event("response", reply.err, reply.text),
           called, Event("response", reply.err, reply.text)>>
    ELSE <<called, Event("response", reply.err, reply.text)>>

\* The one provider call: the request, and the provider's answer to it.
GenerateFromSinglePrompt(called, reply) ==
    <<called, Event("response", reply.err, reply.text)>>

\* replyResult that takes a blank response for a message.
replyResult_BlankAccepted(reply) ==
    IF reply.err # ""
    THEN Returned("", "error generating commit message: " \o reply.err)
    ELSE Returned(reply.text, "")

\* What is returned after the provider call, from the provider's answer.
replyResult(reply) ==
    IF reply.err # ""
    THEN Returned("", "error generating commit message: " \o reply.err)
    ELSE IF TrimSpace(reply.text) = ""
    THEN Returned("", "no commit message content found. check your provider configuration")
    ELSE Returned(reply.text, "")

\* The whole of GenerateCommitMessage, as [env, trace, result]: the
\* environment it leaves, its effects in order, and what it returns.
\* clientErr is the error of the client's constructor and reply the
\* [err, text] of the provider call ("" for no error); both are the
\* library's to decide.
generate(e, file, cfg, changes, provider, selectedProvider, clientErr, reply) ==
    LET summary == changesSummary(changes, cfg)
        style == effectiveStyle(cfg, selectedProvider)
        custom == readCustomPrompt(file)
        promptToUse == withLimit(rulesPrompt(custom.content), style)
        prompt == combinedPrompt(promptToUse, userMessage(style, summary.text))
        missing == missingRequired(provider, selectedProvider)
        client == initClient(provider, selectedProvider)
        options == callOptions(provider, selectedProvider)
        printed ==
            [i \in 1..summary.warnings |-> Event("warn", "", ClampWarning)]
              \o (IF custom.err = "" /\ custom.content # ""
                  THEN <<Event("print", "", "Using your .gommitrules file\n\n")>>
                  ELSE <<>>)
        setenvs ==
            [i \in 1..Len(client.setenv) |->
                Event("setenv", client.setenv[i][1], client.setenv[i][2])]
        called == [op |-> "generate", name |-> provider, value |-> prompt,
                   withModel |-> options.withModel,
                   withTemperature |-> options.withTemperature]
    IN  IF summary.panicked
        THEN [env |-> e, trace |-> <<>>,
              result |-> [msg |-> "", err |-> "", panicked |-> TRUE]]
        ELSE IF custom.err # ""
        THEN [env |-> e, trace |-> printed,
              result |-> Returned("", "error reading custom prompt: " \o custom.err)]
        ELSE IF missing # ""
        THEN [env |-> e, trace |-> printed,
              result |-> Returned("", missing \o " is required for " \o provider \o " provider")]
        ELSE IF ~client.supported
        THEN [env |-> e, trace |-> printed,
              result |-> Returned("", "unsupported LLM provider: " \o provider)]
        ELSE IF clientErr # ""
        THEN [env |-> Setenv(e, client.setenv),
              trace |-> printed \o setenvs \o <<Event("new", provider, clientErr)>>,
              result |-> Returned("", "error initializing LLM client: " \o clientErr)]
        ELSE [env |-> Setenv(e, client.setenv),
              trace |-> printed \o setenvs \o <<Event("new", provider, "")>>
                            \o GenerateFromSinglePrompt(called, reply),
              result |-> replyResult(reply)]

\* One invocation GenerateCommitMessage(cfg, changes, provider, selectedProvider).
GenerateCommitMessage(cfg, changes, provider, selectedProvider, clientErr, reply) ==
    /\ LET r == generate(env, rulesFile, cfg, changes, provider, selectedProvider,
                         clientErr, reply)
       IN  /\ env' = r.env
           /\ trace' = r.trace
           /\ result' = r.result
    /\ call' = [cfg |-> cfg, changes |-> changes, provider |-> provider,
                selectedProvider |-> selectedProvider]
    /\ calls' = calls + 1
    /\ UNCHANGED rulesFile

----------------------------------------------------------------------------
\* One invocation, over the provider configurations (the other arguments are
\* those of TestGenerateCommitMessage_Minimal).

IdleCall ==
    [cfg |-> [CommitStyle |-> "", TruncateLines |-> 0, MaxLineWidth |-> 0],
     changes |-> <<>>, provider |-> "",
     selectedProvider |-> [APIKey |-> "", URI |-> "", Model |-> "",
                           Temperature |-> 0, CommitStyle |-> ""]]

IdleResult == [msg |-> "", err |-> "", panicked |-> FALSE]

NoReturn == [out |-> "", warned |-> FALSE, panicked |-> FALSE]

IdleTd == [diff |-> "", truncateLines |-> 0, maxLineWidth |-> 0,
           done |-> FALSE, ret |-> NoReturn]

\* No gommit.json is looked at.
IdleConfigFile == [state |-> "absent"]

\* No run of the command line is under way.
IdleRun == [pc |-> "idle"]

\* No direct GetAvailableModels call is made.
IdleModels == [provider |-> "", done |-> FALSE, ret |-> <<>>]

InitIdle ==
    /\ env = [v \in {} |-> ""]
    /\ rulesFile = [state |-> "absent", content |-> ""]
    /\ call = IdleCall
    /\ trace = <<>>
    /\ result = IdleResult
    /\ calls = 0
    /\ configFile = IdleConfigFile
    /\ run = IdleRun
    /\ models = IdleModels

TestConfig == [CommitStyle |-> "simple", TruncateLines |-> 3, MaxLineWidth |-> 60]

TestChanges ==
    << [Path |-> "file.txt", Status |-> "M",
        Diff |-> "diff --git a/file.txt b/file.txt\n--- a/file.txt\n+++ b/file.txt\n+hello world\n"] >>

ProviderInputs == {"openai", "anthropic", "ollama", "google", "OpenAI", "cohere"}

KeyInputs == {"", "sk-test"}

UriInputs == {"", "http://localhost:11434"}

ModelInputs ==
    {"", "gpt-5-nano", "gpt-4.1-mini", "gpt-4o", "gpt-4-turbo", "gpt-4", "llama3"}

\* In tenths: -0.5, 0, 0.7 and 1.0.
TemperatureInputs == {-5, 0, 7, 10}

ClientErrInputs == {"", "missing the API key"}

DispatchReplies ==
    {[err |-> "status 429", text |-> ""],
     [err |-> "", text |-> ""],
     [err |-> "", text |-> " \n"],
     [err |-> "", text |-> "feat: greet the world"],
     [err |-> "", text |-> "  fix: greeting\n"]}

Init ==
    /\ env = [v \in {} |-> ""]
    /\ rulesFile \in {[state |-> "absent", content |-> ""],
                      [state |-> "unreadable", content |-> ""]}
    /\ call = IdleCall
    /\ trace = <<>>
    /\ result = IdleResult
    /\ calls = 0
    /\ td = IdleTd
    /\ configFile = IdleConfigFile
    /\ run = IdleRun
    /\ models = IdleModels

Next ==
    \E provider \in ProviderInputs, key \in KeyInputs, uri \in UriInputs,
       model \in ModelInputs, temperature \in TemperatureInputs,
       clientErr \in ClientErrInputs, reply \in DispatchReplies :
        /\ calls = 0
        /\ GenerateCommitMessage(TestConfig, TestChanges, provider,
                [APIKey |-> key, URI |-> uri, Model |-> model,
                 Temperature |-> temperature, CommitStyle |-> ""],
                clientErr, reply)
        /\ UNCHANGED <<td, configFile, run, models>>

Spec == Init /\ [][Next]_vars

----------------------------------------------------------------------------
\* One invocation, over the changes, the styles and the rules file (the
\* provider configuration is a complete one).

SampleChanges ==
    << [Path |-> "README.md", Status |-> "M",
        Diff |-> "@@ -1,2 +1,3 @@\n # gommit\n \n-old line\n+new line"],
       [Path |-> "src/my file.go", Status |-> "A",
        Diff |-> "@@ -0,0 +1,9 @@\n+package main\n+\n+func main() {\n+\tif ok {\n+\t\trun()\n+\t}\n+}\n+\n+// end\n"],
       [Path |-> "old.txt", Status |-> "D", Diff |-> ""] >>

\* The lists of at most MaxChanges different changes.
ChangeInputs ==
    UNION {{[i \in 1..n |-> SampleChanges[f[i]]] :
              f \in {g \in [1..n -> 1..Len(SampleChanges)] :
                        \A i, j \in 1..n : i # j => g[i] # g[j]}} :
           n \in 0..MaxChanges}

StyleInputs == {"conventional", "simple", "detailed", "", "emoji"}

ProviderStyleInputs == {"", "simple", "detailed"}

ShapeInputs == {<<0, 300>>, <<3, 60>>, <<1000, 300>>}

ShortRules == "Keep commits concise."
TestRules == Repeat("Keep commits concise. Avoid secrets. Use imperative mood. ", 3)
LayeredRules ==
    "Rules for this repository:\n\n  1. Write the subject in the imperative mood.\n\t2. Mention the ticket.\n\n   \n3. Never mention file names in the subject line.   \n"

RulesInputs ==
    {[state |-> "absent", content |-> ""],
     [state |-> "unreadable", content |-> ""],
     [state |-> "present", content |-> ""],
     [state |-> "present", content |-> ShortRules],
     [state |-> "present", content |-> SubSeq(TestRules, 1, 100)],
     [state |-> "present", content |-> SubSeq(TestRules, 1, 101)],
     [state |-> "present", content |-> TestRules],
     [state |-> "present", content |-> LayeredRules]}

LongReply == Repeat("word ", 25) \o "end"

ComposeReplies ==
    {[err |-> "status 429", text |-> ""],
     [err |-> "", text |-> "docs: update readme"],
     [err |-> "", text |-> LongReply]}

CompleteProvider(style) ==
    [APIKey |-> "sk-test", URI |-> "", Model |-> "claude-3-5-haiku-latest",
     Temperature |-> 5, CommitStyle |-> style]

InitCompose ==
    /\ env = [v \in {} |-> ""]
    /\ rulesFile \in RulesInputs
    /\ call = IdleCall
    /\ trace = <<>>
    /\ result = IdleResult
    /\ calls = 0
    /\ td = IdleTd
    /\ configFile = IdleConfigFile
    /\ run = IdleRun
    /\ models = IdleModels

NextCompose ==
    \E style \in StyleInputs, shape \in ShapeInputs, changes \in ChangeInputs,
       providerStyle \in ProviderStyleInputs, reply \in ComposeReplies :
        /\ calls = 0
        /\ GenerateCommitMessage(
                [CommitStyle |-> style, TruncateLines |-> shape[1], MaxLineWidth |-> shape[2]],
                changes, ProviderAnthropic, CompleteProvider(providerStyle), "", reply)
        /\ UNCHANGED <<td, configFile, run, models>>

SpecCompose == InitCompose /\ [][NextCompose]_vars

----------------------------------------------------------------------------
\* Properties of GenerateCommitMessage.

\* The requests the last invocation sent to the provider.
Requests == SelectSeq(trace, LAMBDA ev : ev.op = "generate")

\* The invocation wrote the environment, constructed a client or called the
\* provider.
Touched == \E i \in 1..Len(trace) : trace[i].op \in {"setenv", "new", "generate"}

ConfigValue(field) ==
    CASE field = "api_key" -> call.selectedProvider.APIKey
      [] field = "uri" -> call.selectedProvider.URI

\* C1: for a supported provider (a descriptor's Title) whose configuration
\* leaves a Required field empty, the invocation returns an error naming the
\* field and the provider, before it writes the environment, constructs a
\* client or calls the provider.
C1_RequiredFieldChecked ==
    \A i \in 1..Len(Providers) : \A j \in 1..Len(Providers[i].Required) :
        (/\ calls > 0
         /\ rulesFile.state # "unreadable"
         /\ call.provider = Providers[i].Title
         /\ ConfigValue(Providers[i].Required[j]) = "")
        => /\ Contains(result.err, Providers[i].Required[j])
           /\ Contains(result.err, call.provider)
           /\ result.msg = ""
           /\ ~Touched
           /\ DOMAIN env = {}

\* The model is one of the temperature-locked OpenAI families.
LockedModel ==
    /\ call.provider = "openai"
    /\ \/ HasPrefix(call.selectedProvider.Model, "gpt-5")
       \/ HasPrefix(call.selectedProvider.Model, "gpt-4.1")
       \/ HasPrefix(call.selectedProvider.Model, "gpt-4o")

\* C2: a request for a temperature-locked model carries the temperature 1.0
\* whatever was configured; any other request carries a configured
\* temperature above 0 unchanged.
C2_TemperaturePolicy ==
    \A i \in 1..Len(Requests) :
        /\ LockedModel => Requests[i].withTemperature = <<10>>
        /\ (~LockedModel /\ call.selectedProvider.Temperature > 0)
              => Requests[i].withTemperature = <<call.selectedProvider.Temperature>>

C2_Witness ==
    /\ Len(Requests) = 1
    /\ LockedModel
    /\ call.selectedProvider.Temperature = 7
    /\ Requests[1].withTemperature = <<10>>

\* C27: when the model is not temperature-locked and the configured
\* temperature is zero or below, the request carries no temperature option.
C27_ZeroTemperatureOmitted ==
    \A i \in 1..Len(Requests) :
        (~LockedModel /\ call.selectedProvider.Temperature <= 0)
            => /\ Requests[i].withTemperature = <<>>
               /\ Requests[i].withModel =
                     (IF call.selectedProvider.Model # ""
                      THEN <<call.selectedProvider.Model>> ELSE <<>>)

C27_Witness ==
    /\ Len(Requests) = 1
    /\ ~LockedModel
    /\ call.selectedProvider.Temperature = 0
    /\ Requests[1].withTemperature = <<>>
    /\ result.err = ""

\* The lines of the (only) request's prompt.
PromptLines == Split(Requests[1].value)

\* The trimmed non-blank lines of a text.
NonBlankTrimmed(text) ==
    LET lines == Split(text)
    IN  SelectSeq([i \in 1..Len(lines) |-> TrimSpace(lines[i])], LAMBDA l : l # "")

DefaultFirstLine ==
    "You are a helpful assistant that generates concise and meaningful git commit messages."
DefaultLastLine == "Improve error handling and messaging for commit creation."

\* The style the invocation works with.
CallStyle ==
    IF call.selectedProvider.CommitStyle # ""
    THEN call.selectedProvider.CommitStyle
    ELSE call.cfg.CommitStyle

HeaderLine ==
    "Please generate a commit message for the following changes (using '"
        \o CallStyle \o "' as commit style):"

\* A line that may follow the rules: a budget directive, or the header of
\* the user content.
EndsRules(line) ==
    \/ HasPrefix(line, "You must generate a commit message under ")
    \/ line = HeaderLine

InLines(lines, l) == \E i \in 1..Len(lines) : lines[i] = l

\* The lines open with the 18 default rule lines.
UsesDefaultRules(lines) ==
    /\ Len(lines) > 18
    /\ lines[1] = DefaultFirstLine
    /\ lines[18] = DefaultLastLine
    /\ SubSeq(lines, 1, 18) = NonBlankTrimmed(systemPrompt)
    /\ EndsRules(lines[19])

\* The lines open with the custom rules and the safety notice.
UsesCustomRules(lines) ==
    LET custom == NonBlankTrimmed(rulesFile.content)
    IN  /\ Len(lines) > Len(custom) + 1
        /\ SubSeq(lines, 1, Len(custom)) = custom
        /\ lines[Len(custom) + 1] = securityPrompt
        /\ EndsRules(lines[Len(custom) + 2])
        /\ ~InLines(lines, DefaultFirstLine)

\* C8: the request carries the default rules when .gommitrules is absent,
\* empty or at most 100 characters long (and then none of the custom text),
\* and the custom rules followed by the safety notice when it is longer.
C8_CustomRulesThreshold ==
    Len(Requests) > 0 =>
        LET lines == PromptLines
            custom == NonBlankTrimmed(rulesFile.content)
        IN  IF rulesFile.state = "present" /\ Len(rulesFile.content) > 100
            THEN UsesCustomRules(lines)
            ELSE /\ UsesDefaultRules(lines)
                 /\ ~InLines(lines, securityPrompt)
                 /\ \A i \in 1..Len(custom) : ~InLines(lines, custom[i])

C8_Witness ==
    /\ Len(Requests) = 1
    /\ rulesFile.state = "present"
    /\ Len(rulesFile.content) = 100
    /\ UsesDefaultRules(PromptLines)

Budget ==
    CASE CallStyle = "conventional" -> "500"
      [] CallStyle = "simple" -> "100"
      [] CallStyle = "detailed" -> "1000"

\* The text the provider replied with.
Replies == SelectSeq(trace, LAMBDA ev : ev.op = "response")

\* C9: for the styles conventional, simple and detailed the request holds the
\* directive with the budget 500, 100 and 1000, right after the rules and
\* right before the user content; and a reply is returned whole, whatever
\* its length.
C9_BudgetDirective ==
    (Len(Requests) > 0 /\ CallStyle \in {"conventional", "simple", "detailed"}) =>
        LET lines == PromptLines
            header == HeaderLine
            directive ==
                "You must generate a commit message under " \o Budget \o " characters."
            lastRule ==
                IF rulesFile.state = "present" /\ Len(rulesFile.content) > 100
                THEN securityPrompt ELSE DefaultLastLine
        IN  /\ \E k \in 2..(Len(lines) - 1) :
                  /\ lines[k] = directive
                  /\ lines[k - 1] = lastRule
                  /\ lines[k + 1] = header
                  /\ \A j \in 1..k : lines[j] # header
            /\ (result.err = "" => result.msg = Replies[1].value)

C9_Witness ==
    /\ Len(Requests) = 1
    /\ CallStyle = "simple"
    /\ call.cfg.CommitStyle = "detailed"
    /\ InLines(PromptLines, "You must generate a commit message under 100 characters.")
    /\ result.err = ""
    /\ Len(result.msg) > 100

\* The place of the first line equal to l among the lines (0: none).
RECURSIVE FirstAt(_, _, _)
FirstAt(lines, l, i) ==
    IF i > Len(lines) THEN 0
    ELSE IF lines[i] = l THEN i
    ELSE FirstAt(lines, l, i + 1)

\* The text the rules are taken from.
RulesSource ==
    IF rulesFile.state = "present" /\ Len(rulesFile.content) > 100
    THEN rulesFile.content \o "\n\n" \o securityPrompt
    ELSE systemPrompt

\* The budget directive of the style of the invocation, if it has one.
DirectiveLines ==
    IF CallStyle \in {"conventional", "simple", "detailed"}
    THEN <<"You must generate a commit message under " \o Budget \o " characters.">>
    ELSE <<>>

\* C22: the instruction text of the request (everything before the user
\* content) has no blank line and no line with leading or trailing
\* whitespace, whether the rules are the default or the custom ones: its
\* lines are the trimmed non-blank lines of the source, in order, followed by
\* the budget directive when the style has one.
C22_InstructionsCompressed ==
    Len(Requests) > 0 =>
        LET lines == PromptLines
            h == FirstAt(lines, HeaderLine, 1)
            instructions == SubSeq(lines, 1, h - 1)
        IN  /\ h > 1
            /\ \A i \in 1..Len(instructions) :
                  /\ instructions[i] # ""
                  /\ TrimSpace(instructions[i]) = instructions[i]
            /\ instructions = NonBlankTrimmed(RulesSource) \o DirectiveLines

C22_Witness ==
    /\ Len(Requests) = 1
    /\ rulesFile.content = LayeredRules
    /\ Len(NonBlankTrimmed(RulesSource)) < Len(Split(RulesSource))
    /\ LET lines == PromptLines
       IN  /\ lines[2] = "1. Write the subject in the imperative mood."
           /\ lines[3] = "2. Mention the ticket."
           /\ lines[4] = "3. Never mention file names in the subject line."
           /\ lines[5] = securityPrompt

\* The header of the user content for a style.
HeaderFor(style) ==
    "Please generate a commit message for the following changes (using '"
        \o style \o "' as commit style):"

\* The budget directive for a style, if it has one.
DirectiveFor(style) ==
    CASE style = "conventional" ->
            {"You must generate a commit message under 500 characters."}
      [] style = "simple" ->
            {"You must generate a commit message under 100 characters."}
      [] style = "detailed" ->
            {"You must generate a commit message under 1000 characters."}
      [] OTHER -> {}

\* C23: the style of the request is the provider's CommitStyle when that is
\* non-empty and the configuration's CommitStyle otherwise; the header of the
\* user content names that style, and the budget directive (if any) is the
\* one of that same style.
C23_EffectiveStyle ==
    Len(Requests) > 0 =>
        LET lines == PromptLines
            own == call.selectedProvider.CommitStyle
            style == IF own # "" THEN own ELSE call.cfg.CommitStyle
            directives ==
                {lines[i] : i \in {j \in 1..Len(lines) :
                    HasPrefix(lines[j], "You must generate a commit message under ")}}
            headers ==
                {lines[i] : i \in {j \in 1..Len(lines) :
                    HasPrefix(lines[j], "Please generate a commit message for the following changes")}}
        IN  /\ headers = {HeaderFor(style)}
            /\ directives = DirectiveFor(style)

C23_Witness ==
    /\ Len(Requests) = 1
    /\ call.selectedProvider.CommitStyle = "detailed"
    /\ call.cfg.CommitStyle = "simple"
    /\ InLines(PromptLines, HeaderFor("detailed"))
    /\ InLines(PromptLines, "You must generate a commit message under 1000 characters.")
    /\ ~InLines(PromptLines, "You must generate a commit message under 100 characters.")

\* C24: the invocation fails with the custom-rules read error exactly when
\* .gommitrules exists and cannot be read; it then writes no environment
\* variable, constructs no client and calls no provider. An absent or empty
\* file is no error: the request goes out with the default rules.
C24_RulesReadError ==
    calls > 0 =>
        /\ HasPrefix(result.err, "error reading custom prompt: ")
                <=> rulesFile.state = "unreadable"
        /\ rulesFile.state = "unreadable" =>
              /\ ~Touched
              /\ DOMAIN env = {}
              /\ result.msg = ""
        /\ (rulesFile.state = "absent" \/ rulesFile.content = "") /\ rulesFile.state # "unreadable" =>
              /\ Len(Requests) = 1
              /\ UsesDefaultRules(PromptLines)
              /\ result.err = "" \/ HasPrefix(result.err, "error generating commit message: ")

C24_Witness ==
    /\ calls = 1
    /\ rulesFile.state = "unreadable"
    /\ result.err = "error reading custom prompt: open .gommitrules: permission denied"
    /\ ~Touched
    /\ DOMAIN env = {}

FileLine(change) == "File: " \o change.Path \o " (Status: " \o change.Status \o ")"

\* The File lines of the changes from the j-th on occur, in order, among the
\* lines from the i-th on.
RECURSIVE InOrder(_, _, _, _)
InOrder(lines, i, changes, j) ==
    IF j > Len(changes) THEN TRUE
    ELSE IF i > Len(lines) THEN FALSE
    ELSE IF lines[i] = FileLine(changes[j])
         THEN InOrder(lines, i + 1, changes, j + 1)
         ELSE InOrder(lines, i + 1, changes, j)

\* C10: the request holds the File line of every change, in the order of
\* the changes.
C10_EveryPathInOrder ==
    Len(Requests) > 0 => InOrder(PromptLines, 1, call.changes, 1)

C10_Witness ==
    /\ Len(Requests) = 1
    /\ Len(call.changes) = 2
    /\ call.changes[1].Path = "src/my file.go"
    /\ InOrder(PromptLines, 1, call.changes, 1)

\* The provider names the switch has a case for.
Supported == {ProviderOpenAI, ProviderAnthropic, ProviderOllama, ProviderGoogle}

\* The client constructions of the last invocation.
News == SelectSeq(trace, LAMBDA ev : ev.op = "new")

\* C11 as stated: for a provider name outside the four supported ones the
\* invocation returns an error that names the provider, and it writes no
\* environment variable, constructs no client and calls no provider.
C11_UnknownProviderNamed ==
    (calls > 0 /\ call.provider \notin Supported) =>
        /\ result.err # ""
        /\ Contains(result.err, call.provider)
        /\ result.msg = ""
        /\ ~Touched
        /\ DOMAIN env = {}

\* C11 amended: for a provider name outside the four supported ones the
\* invocation returns an error and no message, and it writes no environment
\* variable, constructs no client and calls no provider; the error names the
\* provider unless .gommitrules could not be read, and then it is the error
\* of that read.
C11_UnknownProviderRejected ==
    (calls > 0 /\ call.provider \notin Supported) =>
        /\ result.err # ""
        /\ result.msg = ""
        /\ ~Touched
        /\ DOMAIN env = {}
        /\ IF rulesFile.state = "unreadable"
           THEN HasPrefix(result.err, "error reading custom prompt: ")
           ELSE Contains(result.err, call.provider)

C11_Witness ==
    /\ calls > 0
    /\ call.provider = "cohere"
    /\ call.selectedProvider.APIKey = "sk-test"
    /\ rulesFile.state = "absent"
    /\ result.err = "unsupported LLM provider: cohere"
    /\ result.msg = ""
    /\ trace = <<Event("warn", "", ClampWarning)>>

\* C12: an invocation returns either a message that is not blank and no
\* error, or an error and the empty message; an error of the provider call
\* comes back wrapped as a generation error, and a blank response as an
\* error.
C12_MessageOrError ==
    calls > 0 =>
        LET replies == Replies
        IN  /\ \/ result.err = "" /\ TrimSpace(result.msg) # ""
               \/ result.err # "" /\ result.msg = ""
            /\ \A i \in 1..Len(replies) :
                  /\ replies[i].name # "" =>
                        result.err = "error generating commit message: " \o replies[i].name
                  /\ TrimSpace(replies[i].value) = "" => result.err # ""
                  /\ result.err = "" => replies[i].name = ""

C12_Witness ==
    /\ calls > 0
    /\ Len(Replies) = 1
    /\ Replies[1].name = ""
    /\ Replies[1].value = " \n"
    /\ result.msg = ""
    /\ result.err = "no commit message content found. check your provider configuration"

\* C13: an invocation calls the provider at most once; exactly once when the
\* rules were read, the provider is a supported one and its client was
\* constructed without error; the call is the last thing it does before it
\* takes the answer, also when the answer is an error.
C13_AtMostOneCall ==
    calls > 0 =>
        LET requests == Requests
            news == News
            ready == /\ rulesFile.state # "unreadable"
                     /\ call.provider \in Supported
        IN  /\ Len(requests) <= 1
            /\ Len(news) = (IF ready THEN 1 ELSE 0)
            /\ Len(requests) = 1 <=> (ready /\ news[1].value = "")
            /\ Len(requests) = 1 =>
                  /\ Len(Replies) = 1
                  /\ trace[Len(trace) - 1].op = "generate"
                  /\ trace[Len(trace)].op = "response"
                  /\ trace[Len(trace) - 2].op = "new"
            /\ Len(requests) = 0 => Len(Replies) = 0

C13_Witness ==
    /\ calls > 0
    /\ Len(Requests) = 1
    /\ Len(Replies) = 1
    /\ Replies[1].name = "status 429"
    /\ result.err = "error generating commit message: status 429"

\* C14: a successful invocation returns the provider's response trimmed of
\* leading and trailing whitespace.
C14_ResponseTrimmed ==
    (calls > 0 /\ result.err = "") =>
        /\ Len(Replies) = 1
        /\ result.msg = TrimSpace(Replies[1].value)

\* strings.HasSuffix(s, suffix)
HasSuffix(s, suffix) ==
    Len(s) >= Len(suffix) /\ SubSeq(s, Len(s) - Len(suffix) + 1, Len(s)) = suffix

\* The per-file summaries of the call's changes, each with its diff as
\* truncateDiff returns it.
RECURSIVE Summaries(_, _)
Summaries(changes, cfg) ==
    IF Len(changes) = 0 THEN ""
    ELSE FileLine(changes[1]) \o "\nDiff:\n"
            \o truncateDiff(changes[1].Diff, cfg.TruncateLines, cfg.MaxLineWidth).out
            \o "\n\n" \o Summaries(Tail(changes), cfg)

\* C20: the request ends with the user content: the header line, a blank
\* line and the per-file summaries with their shaped diffs as truncateDiff
\* returned them (the blank lines that end the last summary aside).
C20_UserContentVerbatim ==
    Len(Requests) > 0 =>
        HasSuffix(Requests[1].value,
                  TrimSpace(HeaderLine \o "\n\n" \o Summaries(call.changes, call.cfg)))

----------------------------------------------------------------------------
\* Direct calls of truncateDiff.

\* A line one character over the length from which a cut line is marked,
\* and the longest line that is cut without a mark.
LongLine == Repeat("x", maxDiffLength - 19)
PlainLongLine == Repeat("y", maxDiffLength - 20)

SampleLines == <<"", "+ab", " cdefg", Marker, LongLine, PlainLongLine, "-h">>

\* n lines, cycling through the samples from offset off in steps of stride.
PatternLines(n, stride, off) ==
    [i \in 1..n |-> SampleLines[((off + i * stride) % Len(SampleLines)) + 1]]

DiffInputs ==
    {Join(PatternLines(n, stride, off), "\n") :
        n \in 0..MaxLines, stride \in 0..2, off \in 0..(Len(SampleLines) - 1)}

TruncateInputs == (-1)..MaxTruncate

WidthInputs == {0, 2, 60}

InitTrunc ==
    /\ InitIdle
    /\ td \in {[diff |-> d, truncateLines |-> t, maxLineWidth |-> w,
                done |-> FALSE, ret |-> NoReturn] :
                  d \in DiffInputs, t \in TruncateInputs, w \in WidthInputs}

\* One call truncateDiff(td.diff, td.truncateLines, td.maxLineWidth).
CallTruncateDiff ==
    /\ ~td.done
    /\ td' = [td EXCEPT !.done = TRUE,
                        !.ret = truncateDiff(td.diff, td.truncateLines, td.maxLineWidth)]
    /\ UNCHANGED <<env, rulesFile, call, trace, result, calls, configFile, run, models>>

NextTrunc == CallTruncateDiff

SpecTrunc == InitTrunc /\ [][NextTrunc]_vars

\* The widths a configuration file can hold: max_line_width is read as an
\* int and not validated, so negative values are among them.
LoadedWidthInputs == {-1, 0, 60}

InitTruncLoaded ==
    /\ InitIdle
    /\ td \in {[diff |-> d, truncateLines |-> t, maxLineWidth |-> w,
                done |-> FALSE, ret |-> NoReturn] :
                  d \in DiffInputs, t \in TruncateInputs, w \in LoadedWidthInputs}

SpecTruncLoaded == InitTruncLoaded /\ [][NextTrunc]_vars

----------------------------------------------------------------------------
\* Properties of truncateDiff (checked under SpecTrunc).

\* The lines of the diff given to the call, and of the returned string.
TdLines == Split(td.diff)
TdOutLines == Split(td.ret.out)

\* The number of lines kept at each end: 0 keeps everything, 1..3 (and
\* anything below) count as 3.
TdKeep ==
    IF td.truncateLines = 0 THEN 0
    ELSE IF td.truncateLines <= 3 THEN 3 ELSE td.truncateLines

\* The width-capped input lines.
TdCapped == [i \in 1..Len(TdLines) |-> capLine(TdLines[i], td.maxLineWidth)]

\* Line o is line i cut to the width w, with or without the mark.
IsCutOf(o, i, w) ==
    /\ Len(i) > w
    /\ o \in {SubSeq(i, 1, w), SubSeq(i, 1, w) \o Marker}

MarkerLines(lines) == {i \in 1..Len(lines) : lines[i] = Marker}

TdTruncates == td.done /\ td.truncateLines # 0 /\ Len(TdLines) > 2 * TdKeep + 1

\* The first n and the last n lines of out are those of capped.
EndsKept(out, capped, n) ==
    /\ SubSeq(out, 1, n) = SubSeq(capped, 1, n)
    /\ SubSeq(out, Len(out) - n + 1, Len(out))
         = SubSeq(capped, Len(capped) - n + 1, Len(capped))

\* C3 as stated: a diff of more than 2N+1 lines comes back with exactly one
\* line equal to the marker, its first N and last N lines being those of the
\* width-capped input.
C3_ExactlyOneMarkerLine ==
    TdTruncates =>
        LET out == TdOutLines
        IN  /\ Cardinality(MarkerLines(out)) = 1
            /\ EndsKept(out, TdCapped, TdKeep)

\* C3 amended: a diff of more than 2N+1 lines comes back as 2N+1 lines, the
\* marker at line N+1 between the first N and the last N width-capped input
\* lines; that marker line is the only one unless a kept line equals it.
C3_HeadMarkerTail ==
    TdTruncates =>
        LET out == TdOutLines
            capped == TdCapped
            n == TdKeep
        IN  /\ Len(out) = 2 * n + 1
            /\ out[n + 1] = Marker
            /\ EndsKept(out, capped, n)
            /\ (\A i \in (1..n) \cup ((Len(capped) - n + 1)..Len(capped)) :
                    capped[i] # Marker)
                  => Cardinality(MarkerLines(out)) = 1

C3_Witness ==
    /\ TdTruncates
    /\ td.truncateLines = 4
    /\ LET out == TdOutLines
           in == TdLines
       IN  /\ Cardinality(MarkerLines(out)) = 1
           /\ \E i \in 1..4 : out[i] # in[i]
           /\ out[1] # out[2]

\* C4: a diff of at most 2N+1 lines comes back with the same number of lines,
\* each line either unchanged or cut to the width.
C4_ShortDiffKept ==
    td.done =>
        LET in == TdLines
            out == TdOutLines
        IN  Len(in) <= 2 * TdKeep + 1 =>
                /\ Len(out) = Len(in)
                /\ \A i \in 1..Len(in) :
                      \/ out[i] = in[i] /\ Len(in[i]) <= td.maxLineWidth
                      \/ IsCutOf(out[i], in[i], td.maxLineWidth)

C4_Witness ==
    /\ td.done
    /\ td.truncateLines = 3
    /\ Len(TdLines) = 7
    /\ \E i \in 1..7 : TdOutLines[i] = TdLines[i] /\ TdLines[i] # ""
    /\ \E i \in 1..7 : IsCutOf(TdOutLines[i], TdLines[i], td.maxLineWidth)

\* C5 as stated: with truncateLines = 0 the marker text occurs in the output
\* only where it occurred in the input.
C5_NoMarkerText ==
    (td.done /\ td.truncateLines = 0) =>
        Cardinality(Occurrences(td.ret.out, Marker))
            <= Cardinality(Occurrences(td.diff, Marker))

\* C5 amended: with truncateLines = 0 no line is added or dropped: the output
\* has the input's lines, each unchanged or cut to the width, and a cut line
\* ends in the marker text exactly when it was longer than 980 characters.
C5_NoMarkerLineInserted ==
    (td.done /\ td.truncateLines = 0) =>
        LET in == TdLines
            out == TdOutLines
        IN  /\ Len(out) = Len(in)
            /\ \A i \in 1..Len(in) :
                  out[i] =
                     IF Len(in[i]) <= td.maxLineWidth THEN in[i]
                     ELSE IF Len(in[i]) > maxDiffLength - 20
                          THEN SubSeq(in[i], 1, td.maxLineWidth) \o Marker
                          ELSE SubSeq(in[i], 1, td.maxLineWidth)

C5_Witness ==
    /\ td.done
    /\ td.truncateLines = 0
    /\ Len(TdLines) > 7
    /\ Len(TdOutLines) = Len(TdLines)
    /\ \E i \in 1..Len(TdLines) :
          /\ Len(TdLines[i]) > maxDiffLength - 20
          /\ td.maxLineWidth = 2
          /\ TdOutLines[i] = SubSeq(TdLines[i], 1, 2) \o Marker

TdPlace(i) ==
    IF ~TdTruncates THEN i
    ELSE IF i <= TdKeep THEN i
    ELSE IF i > Len(TdLines) - TdKeep THEN i - Len(TdLines) + 2 * TdKeep + 1
    ELSE 0

\* C19: every kept line that is longer than maxLineWidth comes back as its
\* first maxLineWidth characters followed by the marker.
C19_CutLineMarked ==
    td.done =>
        LET in == TdLines
            out == TdOutLines
        IN  \A i \in 1..Len(in) :
                (Len(in[i]) > td.maxLineWidth /\ TdPlace(i) # 0) =>
                    out[TdPlace(i)] = SubSeq(in[i], 1, td.maxLineWidth) \o Marker

\* C21: for truncateLines >= 0 and maxLineWidth >= 0 no line of the output is
\* longer than maxLineWidth plus the length of the marker, and every kept
\* input line of at most maxLineWidth characters comes back unchanged.
C21_LinesBounded ==
    (td.done /\ td.truncateLines >= 0 /\ td.maxLineWidth >= 0) =>
        LET in == TdLines
            out == TdOutLines
        IN  /\ \A j \in 1..Len(out) : Len(out[j]) <= td.maxLineWidth + Len(Marker)
            /\ \A i \in 1..Len(in) :
                  (Len(in[i]) <= td.maxLineWidth /\ TdPlace(i) # 0) =>
                      out[TdPlace(i)] = in[i]

C21_Witness ==
    /\ td.done
    /\ td.truncateLines = 4
    /\ td.maxLineWidth = 2
    /\ TdTruncates
    /\ LET in == TdLines
           out == TdOutLines
       IN  /\ \E j \in 1..Len(out) :
                 out[j] # Marker /\ Len(out[j]) = td.maxLineWidth + Len(Marker)
           /\ \E i \in 1..Len(in) :
                 /\ in[i] = "-h"
                 /\ TdPlace(i) # 0
                 /\ out[TdPlace(i)] = "-h"
           /\ \E i \in 1..Len(in) :
                 /\ Len(in[i]) = maxDiffLength - 20
                 /\ TdPlace(i) # 0
                 /\ Len(out[TdPlace(i)]) = td.maxLineWidth

\* C29: truncateDiff returns a string, without a runtime failure, for every
\* diff and every pair (truncateLines, maxLineWidth) a loaded configuration
\* can hold, a maxLineWidth of zero or below and a negative truncateLines
\* included; a negative truncateLines gives what 3 gives.
C29_NoRuntimeFailure ==
    td.done =>
        /\ ~td.ret.panicked
        /\ td.truncateLines < 0 =>
              td.ret.out = truncateDiff(td.diff, 3, td.maxLineWidth).out

----------------------------------------------------------------------------
\* Scenario C: a diff of ScenarioChars characters, truncateLines = 3 and
\* maxLineWidth = 60 (the values of TestGenerateCommitMessage_Minimal).

ScenarioTruncateLines == 3
ScenarioMaxLineWidth == 60

\* The lengths of the k lines of a diff of total characters, newlines
\* included: the first line has head characters (an even share when head is
\* negative), the others share the rest evenly.
PartLengths(total, k, head) ==
    LET chars == total - (k - 1)
        first == IF head < 0 \/ k = 1 THEN chars \div k ELSE head
        others == chars - first
        base == IF k = 1 THEN 0 ELSE others \div (k - 1)
        extra == IF k = 1 THEN 0 ELSE others % (k - 1)
    IN  [i \in 1..k |->
            IF k = 1 THEN chars
            ELSE IF i = 1 THEN first
            ELSE IF i - 1 <= extra THEN base + 1 ELSE base]

ScenarioDiff(k, head, c) ==
    LET lens == PartLengths(ScenarioChars, k, head)
    IN  Join([i \in 1..k |-> Repeat(c, lens[i])], "\n")

ScenarioHeads == {-1, 0, 60, maxDiffLength - 19, 2000}

ScenarioDiffs ==
    {ScenarioDiff(k, head, c) :
        k \in 1..MaxParts, head \in ScenarioHeads, c \in {"x", " "}}

InitScenarioC ==
    /\ InitIdle
    /\ td \in {[diff |-> d, truncateLines |-> ScenarioTruncateLines,
                maxLineWidth |-> ScenarioMaxLineWidth,
                done |-> FALSE, ret |-> NoReturn] : d \in ScenarioDiffs}

SpecScenarioC == InitScenarioC /\ [][NextTrunc]_vars

\* The kept input lines: all of them up to 7 lines, else the first and last 3.
ScenarioKept ==
    IF Len(TdLines) <= 7 THEN 1..Len(TdLines)
    ELSE (1..3) \cup ((Len(TdLines) - 2)..Len(TdLines))

ScenarioMarkers == Cardinality(Occurrences(td.ret.out, Marker))

\* C7 as stated: every diff of 4000 characters, however divided into lines,
\* comes back with exactly one truncation marker.
C7_ExactlyOneMarker ==
    (td.done /\ Len(td.diff) = ScenarioChars) => ScenarioMarkers = 1

\* C7 amended: the result holds one marker for each kept line longer than 980
\* characters, and one more when the diff has more than 7 lines; so exactly
\* one when it has more than 7 lines and no kept line is longer than 980.
C7_MarkerCount ==
    (td.done /\ Len(td.diff) = ScenarioChars) =>
        /\ ScenarioMarkers =
              Cardinality({i \in ScenarioKept : Len(TdLines[i]) > maxDiffLength - 20})
                + (IF Len(TdLines) > 7 THEN 1 ELSE 0)
        /\ (Len(TdLines) > 7 /\ \A i \in ScenarioKept : Len(TdLines[i]) <= maxDiffLength - 20)
              => ScenarioMarkers = 1

C7_Witness ==
    /\ td.done
    /\ Len(td.diff) = ScenarioChars
    /\ Len(TdLines) > 7
    /\ \E i \in ScenarioKept : Len(TdLines[i]) > ScenarioMaxLineWidth
    /\ ScenarioMarkers = 1

----------------------------------------------------------------------------
\* The configuration file and config.Load.

DefaultTruncateLines == 1000
DefaultMaxLineWidth == 300

\* A field of the JSON document is the empty sequence when the document
\* omits it, and the sequence of its value otherwise; json.Unmarshal leaves
\* the zero value in the struct field of an omitted one.
Zero(field, zero) == IF Len(field) = 0 THEN zero ELSE field[1]

\* json.Unmarshal into a types.ProviderConfig.
UnmarshalProvider(p) ==
    [APIKey      |-> Zero(p.api_key, ""),
     URI         |-> Zero(p.uri, ""),
     Model       |-> Zero(p.model, ""),
     Temperature |-> Zero(p.temperature, 0),
     CommitStyle |-> Zero(p.commit_style, "")]

\* json.Unmarshal into a types.Config.
Unmarshal(doc) ==
    [DefaultProvider |-> Zero(doc.default_provider, ""),
     Providers       |-> [name \in DOMAIN doc.providers |->
                             UnmarshalProvider(doc.providers[name])],
     MaxTokens       |-> Zero(doc.max_tokens, 0),
     CommitStyle     |-> Zero(doc.commit_style, ""),
     TruncateLines   |-> Zero(doc.truncate_lines, 0),
     MaxLineWidth    |-> Zero(doc.max_line_width, 0)]

\* The zero values of types.ProviderConfig and types.Config.
NoProviderConfig ==
    [APIKey |-> "", URI |-> "", Model |-> "", Temperature |-> 0, CommitStyle |-> ""]

NoConfig ==
    [DefaultProvider |-> "", Providers |-> [name \in {} |-> NoProviderConfig],
     MaxTokens |-> 0, CommitStyle |-> "", TruncateLines |-> 0, MaxLineWidth |-> 0]

LoadFailed(err) == [cfg |-> NoConfig, err |-> err, exited |-> FALSE]

\* config.Load returns [cfg, err, exited]: the configuration and the error
\* it returns, or exited when it ran the wizard and left the process with
\* status 0 instead of returning.
Load(file) ==
    IF file.state = "absent"
    THEN [cfg |-> NoConfig, err |-> "", exited |-> TRUE]
    ELSE IF file.state = "unreadable"
    THEN LoadFailed("could not read config file: permission denied")
    ELSE IF file.state = "malformed"
    THEN LoadFailed("could not parse config file: unexpected end of JSON input")
    ELSE
    LET config == Unmarshal(file.doc)
        defaultProvider ==
            IF config.DefaultProvider = "" THEN "openai" ELSE config.DefaultProvider
    IN  IF defaultProvider \notin DOMAIN config.Providers
        THEN LoadFailed("default provider " \o defaultProvider \o " not found in config")
        ELSE
        LET providerConfig == config.Providers[defaultProvider]
            temperature ==
                IF providerConfig.Temperature = 0 THEN 7 ELSE providerConfig.Temperature
        IN  IF providerConfig.APIKey = ""
            THEN LoadFailed("api_key is required for provider " \o defaultProvider)
            ELSE IF temperature < 0 \/ temperature > 10
            THEN LoadFailed("temperature must be between 0 and 1 for provider "
                                \o defaultProvider)
            ELSE [cfg |-> [config EXCEPT
                              !.DefaultProvider = defaultProvider,
                              !.Providers[defaultProvider].Temperature = temperature],
                  err |-> "", exited |-> FALSE]

----------------------------------------------------------------------------
\* The command line flags.

IsDigit(c) == Len(c) = 1 /\ Contains("0123456789", c)

DigitValue(c) == Min(Occurrences("0123456789", c)) - 1

AllDigits(s) == \A i \in 1..Len(s) : IsDigit(Char(s, i))

RECURSIVE ParseNat(_)
ParseNat(s) ==
    IF Len(s) = 0 THEN 0
    ELSE ParseNat(SubSeq(s, 1, Len(s) - 1)) * 10 + DigitValue(Char(s, Len(s)))

\* strconv.ParseFloat of a decimal numeral with at most one digit after the
\* point, as [ok, value] with the value in tenths; anything else that is not
\* made of a sign, digits and one point is a syntax error.
ParseFloat(s) ==
    LET negative == HasPrefix(s, "-")
        body == IF negative \/ HasPrefix(s, "+") THEN SubSeq(s, 2, Len(s)) ELSE s
        points == Occurrences(body, ".")
        point == IF points = {} THEN Len(body) + 1 ELSE Min(points)
        whole == SubSeq(body, 1, point - 1)
        fraction == SubSeq(body, point + 1, Len(body))
        sign == IF negative THEN -1 ELSE 1
    IN  IF /\ Len(whole) + Len(fraction) > 0
           /\ Cardinality(points) <= 1
           /\ AllDigits(whole)
           /\ AllDigits(fraction)
           /\ Len(fraction) <= 1
        THEN [ok |-> TRUE,
              value |-> sign * (ParseNat(whole) * 10 + ParseNat(fraction))]
        ELSE [ok |-> FALSE, value |-> 0]

\* The flags when none is given.
NoFlags ==
    [args |-> 0, version |-> FALSE, config |-> FALSE,
     p |-> "", m |-> "", t |-> "", s |-> "", l |-> 0, w |-> 0]

\* The provider, its configuration and the shaping values a run generates
\* with: those of the configuration, overridden by the flags given.
overrides(cfg, flags) ==
    LET provider == IF flags.p # "" THEN flags.p ELSE cfg.DefaultProvider
        selected ==
            IF provider \in DOMAIN cfg.Providers
            THEN cfg.Providers[provider] ELSE NoProviderConfig
        temperature == ParseFloat(flags.t)
    IN  [provider |-> provider,
         selectedConfig |->
            [selected EXCEPT
                !.Model = IF flags.m # "" THEN flags.m ELSE @,
                !.Temperature =
                    IF temperature.ok /\ temperature.value >= 0
                    THEN temperature.value ELSE @,
                !.CommitStyle = IF flags.s # "" THEN flags.s ELSE @],
         cfg |-> [cfg EXCEPT
                     !.TruncateLines = IF flags.l > 0 THEN flags.l ELSE @,
                     !.MaxLineWidth = IF flags.w > 0 THEN flags.w ELSE @]]

----------------------------------------------------------------------------
\* A run of the command line (Run of pkg/gommit), step by step.  run.pc is
\* the step it is at; "exited" is os.Exit with the status in run.exit, and
\* "returned" the return of Run (status 0); run.err is the error printed.

NewRun(flags) ==
    [pc |-> "flags", flags |-> flags, cfg |-> NoConfig, changes |-> <<>>,
     provider |-> "", selectedConfig |-> NoProviderConfig,
     message |-> "", answered |-> <<>>, commits |-> <<>>, err |-> "",
     exit |-> <<>>]

Exit(r, code) == [r EXCEPT !.pc = "exited", !.exit = <<code>>]

\* The error is printed and the process exits with status 1.
Fail(r, err) == [r EXCEPT !.pc = "exited", !.exit = <<1>>, !.err = err]

Return(r) == [r EXCEPT !.pc = "returned"]

\* What CreateConfigWizard writes when the user goes through it: one
\* provider, no truncate_lines (omitempty) and max_line_width 0.
WizardConfig ==
    [state |-> "present",
     doc |-> [default_provider |-> <<"openai">>,
              providers |-> [name \in {"openai"} |->
                  [api_key |-> <<"sk-wizard">>, uri |-> <<>>,
                   model |-> <<"gpt-4o-mini">>, temperature |-> <<7>>,
                   commit_style |-> <<>>]],
              max_tokens |-> <<500>>, commit_style |-> <<"conventional">>,
              truncate_lines |-> <<>>, max_line_width |-> <<0>>]]

\* The flags are parsed: a stray argument ends the run with status 1,
\* -version prints and returns, -config runs the wizard.
RunFlags ==
    /\ run.pc = "flags"
    /\ IF run.flags.args > 0
       THEN run' = Fail(run, "Error: invalid argument") /\ UNCHANGED configFile
       ELSE IF run.flags.version
       THEN run' = Return(run) /\ UNCHANGED configFile
       ELSE IF run.flags.config
       THEN \E wizardErr \in BOOLEAN :
               IF wizardErr
               THEN /\ run' = Fail(run, "Error in configuration wizard: cancelled")
                    /\ UNCHANGED configFile
               ELSE /\ run' = Return(run)
                    /\ configFile' = WizardConfig
       ELSE run' = [run EXCEPT !.pc = "load"] /\ UNCHANGED configFile
    /\ UNCHANGED <<env, rulesFile, call, trace, result, calls, td, models>>

\* config.Load: without a file the wizard runs and the process exits with
\* status 0; an error ends the run with status 1.
RunLoad ==
    /\ run.pc = "load"
    /\ LET loaded == Load(configFile)
       IN  IF loaded.exited
           THEN /\ run' = Exit(run, 0)
                /\ \E wizardErr \in BOOLEAN :
                      configFile' = IF wizardErr THEN configFile ELSE WizardConfig
           ELSE /\ run' = IF loaded.err # ""
                          THEN Fail(run, "Error loading configuration: " \o loaded.err)
                          ELSE [run EXCEPT !.pc = "repo", !.cfg = loaded.cfg]
                /\ UNCHANGED configFile
    /\ UNCHANGED <<env, rulesFile, call, trace, result, calls, td, models>>

\* git.IsGitRepository
RunCheckRepo ==
    /\ run.pc = "repo"
    /\ \E isRepository \in BOOLEAN :
          run' = IF isRepository THEN [run EXCEPT !.pc = "staged"]
                 ELSE Fail(run, "Error: not a git repository")
    /\ UNCHANGED <<env, rulesFile, call, trace, result, calls, td, configFile, models>>

\* The lists of staged changes git may report.
StagedInputs == {<<>>, TestChanges, SubSeq(SampleChanges, 1, MaxChanges)}

\* git.GetStagedChanges, and git.GetUnstagedChanges when nothing is staged.
RunStaged ==
    /\ run.pc = "staged"
    /\ \E stagedErr \in BOOLEAN, changes \in StagedInputs, unstagedErr \in BOOLEAN :
          run' = IF stagedErr
                 THEN Fail(run, "Error getting staged changes: exit status 128")
                 ELSE IF Len(changes) = 0
                 THEN IF unstagedErr
                      THEN Fail(run, "Error getting unstaged changes: exit status 128")
                      ELSE Exit(run, 0)
                 ELSE [run EXCEPT !.pc = "generate", !.changes = changes]
    /\ UNCHANGED <<env, rulesFile, call, trace, result, calls, td, configFile, models>>

\* What Run does with the return of GenerateCommitMessage (a panic ends the
\* process with status 2).
afterGenerate(r, res) ==
    IF res.panicked THEN Exit(r, 2)
    ELSE IF res.err # "" THEN Fail(r, "Error generating commit message: " \o res.err)
    ELSE [r EXCEPT !.pc = "confirm", !.message = res.msg]

\* The flags override the configuration, and the message is generated.
RunGenerate ==
    /\ run.pc = "generate"
    /\ LET o == overrides(run.cfg, run.flags)
       IN  \E clientErr \in ClientErrInputs, reply \in DispatchReplies :
              /\ GenerateCommitMessage(o.cfg, run.changes, o.provider,
                                       o.selectedConfig, clientErr, reply)
              /\ run' = afterGenerate(
                            [run EXCEPT !.cfg = o.cfg, !.provider = o.provider,
                                        !.selectedConfig = o.selectedConfig],
                            result')
    /\ UNCHANGED <<td, configFile, models>>

\* confirmCommit that commits whatever the user answers.
confirmCommit_Always(r, confirmed) ==
    [r EXCEPT !.pc = "commit", !.answered = <<confirmed>>]

\* The preview and the confirmation prompt: anything but a yes ends the run
\* with status 0.
confirmCommit(r, confirmed) ==
    IF confirmed
    THEN [r EXCEPT !.pc = "commit", !.answered = <<confirmed>>]
    ELSE Exit([r EXCEPT !.answered = <<confirmed>>], 0)

RunConfirm ==
    /\ run.pc = "confirm"
    /\ \E confirmed \in BOOLEAN : run' = confirmCommit(run, confirmed)
    /\ UNCHANGED <<env, rulesFile, call, trace, result, calls, td, configFile, models>>

\* git.Commit(message): git commit -m message is run, and may fail.
Commit(r, commitErr) ==
    LET committed == [r EXCEPT !.commits = Append(@, r.message)]
    IN  IF commitErr
        THEN Fail(committed, "Error creating commit: exit status 1")
        ELSE Return(committed)

RunCommit ==
    /\ run.pc = "commit"
    /\ \E commitErr \in BOOLEAN : run' = Commit(run, commitErr)
    /\ UNCHANGED <<env, rulesFile, call, trace, result, calls, td, configFile, models>>

----------------------------------------------------------------------------
\* Runs of the command line, over the configuration files and the flags.

ProviderDoc(key, uri, model, temperature) ==
    [api_key |-> key, uri |-> uri, model |-> model,
     temperature |-> temperature, commit_style |-> <<>>]

\* The providers of the README's manual configuration.
ReadmeProviders ==
    [name \in {"openai", "ollama"} |->
        IF name = "openai"
        THEN ProviderDoc(<<"your-api-key-here">>, <<>>, <<"gpt-4o-mini">>, <<5>>)
        ELSE ProviderDoc(<<>>, <<"http://localhost:11434">>, <<"llama3.1:8b">>, <<5>>)]

\* The README's manual configuration, with a default provider of choice.
ReadmeConfig(default) ==
    [state |-> "present",
     doc |-> [default_provider |-> default, providers |-> ReadmeProviders,
              max_tokens |-> <<500>>, commit_style |-> <<"conventional">>,
              truncate_lines |-> <<>>, max_line_width |-> <<>>]]

\* A configuration that sets both shaping values.
ShapedConfig ==
    [ReadmeConfig(<<"openai">>) EXCEPT
        !.doc.truncate_lines = <<5>>, !.doc.max_line_width = <<80>>]

\* One whose ollama entry has an api_key as well, and is the default.
KeyedOllamaConfig ==
    [ReadmeConfig(<<"ollama">>) EXCEPT
        !.doc.providers["ollama"].api_key = <<"unused">>]

\* One whose default provider asks for the temperature 1.5, and one that
\* leaves the temperature out.
HotConfig ==
    [ReadmeConfig(<<"openai">>) EXCEPT !.doc.providers["openai"].temperature = <<15>>]
PlainConfig ==
    [ReadmeConfig(<<"openai">>) EXCEPT !.doc.providers["openai"].temperature = <<>>]

ConfigInputs ==
    {[state |-> "absent"], [state |-> "unreadable"], [state |-> "malformed"],
     ReadmeConfig(<<"openai">>), ReadmeConfig(<<"ollama">>), ReadmeConfig(<<>>),
     ReadmeConfig(<<"google">>), ShapedConfig, KeyedOllamaConfig, HotConfig,
     PlainConfig, WizardConfig}

FlagInputs ==
    {NoFlags,
     [NoFlags EXCEPT !.args = 1],
     [NoFlags EXCEPT !.version = TRUE],
     [NoFlags EXCEPT !.config = TRUE],
     [NoFlags EXCEPT !.p = "ollama"],
     [NoFlags EXCEPT !.p = "cohere"],
     [NoFlags EXCEPT !.m = "gpt-4-turbo", !.t = "0.2"],
     [NoFlags EXCEPT !.t = "hot", !.s = "simple"],
     [NoFlags EXCEPT !.t = "1.5"],
     [NoFlags EXCEPT !.l = 5, !.w = 120]}

InitRun ==
    /\ env = [v \in {} |-> ""]
    /\ rulesFile = [state |-> "absent", content |-> ""]
    /\ call = IdleCall
    /\ trace = <<>>
    /\ result = IdleResult
    /\ calls = 0
    /\ td = IdleTd
    /\ models = IdleModels
    /\ configFile \in ConfigInputs
    /\ run \in {NewRun(flags) : flags \in FlagInputs}

NextRun ==
    \/ RunFlags
    \/ RunLoad
    \/ RunCheckRepo
    \/ RunStaged
    \/ RunGenerate
    \/ RunConfirm
    \/ RunCommit

SpecRun == InitRun /\ [][NextRun]_vars

----------------------------------------------------------------------------
\* Properties of a run of the command line (checked under SpecRun).

\* C15: git commit is run at most once, only after GenerateCommitMessage
\* returned without error and the user said yes, and with the message that
\* was generated; a failed generation ends the run with status 1 and no
\* commit, and so does a no, with status 0.
C15_CommitAfterConfirm ==
    /\ Len(run.commits) <= 1
    /\ (run.pc = "commit" \/ Len(run.commits) = 1) =>
          /\ calls = 1
          /\ result.err = ""
          /\ run.answered = <<TRUE>>
          /\ run.message = result.msg
    /\ Len(run.commits) = 1 =>
          /\ run.commits[1] = result.msg
          /\ run.pc \in {"returned", "exited"}
    /\ (calls = 1 /\ result.err # "") =>
          /\ run.pc = "exited"
          /\ run.exit = <<1>>
          /\ run.commits = <<>>
          /\ run.answered = <<>>
    /\ run.answered = <<FALSE>> =>
          /\ run.pc = "exited"
          /\ run.exit = <<0>>
          /\ run.commits = <<>>
    /\ calls = 0 => run.commits = <<>> /\ run.answered = <<>>

C15_Witness ==
    /\ run.pc = "returned"
    /\ calls = 1
    /\ run.answered = <<TRUE>>
    /\ run.commits = <<"feat: greet the world">>
    /\ Replies[1].value = "feat: greet the world"

\* The configuration file sets neither truncate_lines nor max_line_width,
\* and no flag sets them either.
ShapingOmitted ==
    /\ configFile.state = "present"
    /\ configFile.doc.truncate_lines = <<>>
    /\ configFile.doc.max_line_width = <<>>
    /\ run.flags.l = 0
    /\ run.flags.w = 0

\* C16: when the configuration file omits truncate_lines and max_line_width,
\* GenerateCommitMessage shapes the diffs with truncateLines 1000 and
\* maxLineWidth 300.
C16_DefaultShaping ==
    (calls > 0 /\ ShapingOmitted) =>
        /\ call.cfg.TruncateLines = DefaultTruncateLines
        /\ call.cfg.MaxLineWidth = DefaultMaxLineWidth

\* The default provider of the configuration file is ollama, with a uri and
\* no api_key, and the flags end the run at no earlier step.
OllamaWithoutKey ==
    /\ configFile.state = "present"
    /\ configFile.doc.default_provider = <<"ollama">>
    /\ "ollama" \in DOMAIN configFile.doc.providers
    /\ configFile.doc.providers["ollama"].api_key = <<>>
    /\ configFile.doc.providers["ollama"].uri # <<>>
    /\ configFile.doc.providers["ollama"].uri # <<"">>
    /\ run.flags.args = 0
    /\ ~run.flags.version
    /\ ~run.flags.config

\* C17: a configuration whose default provider is ollama with a uri and no
\* api_key is loaded, and the run goes on without an error about api_key.
C17_OllamaAccepted ==
    (OllamaWithoutKey /\ run.pc \notin {"flags", "load"}) =>
        /\ run.cfg.DefaultProvider = "ollama"
        /\ ~Contains(run.err, "api_key")

\* C26: the temperature of the ProviderConfig that Run hands to
\* GenerateCommitMessage lies within 0.0 and 1.0 (0..10 in tenths), for every
\* configuration that loads and every -p and -t.
C26_TemperatureInRange ==
    calls > 0 => call.selectedProvider.Temperature \in 0..10

----------------------------------------------------------------------------
\* Several invocations of GenerateCommitMessage in one process: the
\* environment of the process is kept from one invocation to the next.

CallProviderInputs ==
    {ProviderOpenAI, ProviderAnthropic, ProviderOllama, ProviderGoogle, "cohere"}

\* The api_key and uri of the n-th invocation: each invocation has values of
\* its own, or empty ones.
CredentialInputs(n) ==
    {<<"", "">>,
     <<"key" \o Itoa(n), "">>,
     <<"key" \o Itoa(n), "http://host" \o Itoa(n) \o ":11434">>}

CallReply == [err |-> "", text |-> "docs: update readme"]

InitCalls ==
    /\ env = [v \in {} |-> ""]
    /\ rulesFile \in {[state |-> "absent", content |-> ""],
                      [state |-> "unreadable", content |-> ""]}
    /\ call = IdleCall
    /\ trace = <<>>
    /\ result = IdleResult
    /\ calls = 0
    /\ td = IdleTd
    /\ configFile = IdleConfigFile
    /\ run = IdleRun
    /\ models = IdleModels

NextCalls ==
    \E provider \in CallProviderInputs, credential \in CredentialInputs(calls + 1),
       clientErr \in ClientErrInputs :
        /\ calls < MaxCalls
        /\ GenerateCommitMessage(TestConfig, <<>>, provider,
                [APIKey |-> credential[1], URI |-> credential[2], Model |-> "",
                 Temperature |-> 0, CommitStyle |-> ""],
                clientErr, CallReply)
        /\ UNCHANGED <<td, configFile, run, models>>

SpecCalls == InitCalls /\ [][NextCalls]_vars

\* The environment variables the spec gives to a provider.
OwnVariables(provider) ==
    CASE provider = "openai" -> {"OPENAI_API_KEY"}
      [] provider = "anthropic" -> {"ANTHROPIC_API_KEY"}
      [] provider = "ollama" -> {"OLLAMA_API_KEY", "OLLAMA_URI"}
      [] provider = "google" -> {"GOOGLE_API_KEY"}
      [] OTHER -> {}

ProviderVariables ==
    {"OPENAI_API_KEY", "ANTHROPIC_API_KEY", "OLLAMA_API_KEY", "OLLAMA_URI", "GOOGLE_API_KEY"}

\* One invocation leaves the variable v as it was: set or not, and its value.
Kept(v) ==
    /\ v \in DOMAIN env <=> v \in DOMAIN env'
    /\ v \in DOMAIN env => env'[v] = env[v]

\* C25: in a sequence of invocations, an invocation for a provider changes
\* no environment variable but that provider's own: every variable of every
\* other provider is set or unset as before, with the value it had.
C25_OwnVariablesOnly ==
    [][\A v \in (ProviderVariables \cup DOMAIN env \cup DOMAIN env')
                \ OwnVariables(call'.provider) : Kept(v)]_vars

C25_Witness ==
    /\ calls = 2
    /\ call.provider = "anthropic"
    /\ DOMAIN env = {"OLLAMA_API_KEY", "OLLAMA_URI", "ANTHROPIC_API_KEY"}
    /\ env["OLLAMA_API_KEY"] = "key1"
    /\ env["OLLAMA_URI"] = "http://host1:11434"
    /\ env["ANTHROPIC_API_KEY"] = "key2"

\* The invocation that leads to the next state constructed a client.
ReachedClient == \E i \in 1..Len(trace') : trace'[i].op = "new"

\* The value an invocation has for a variable of its provider.
OwnValue(v) ==
    IF v = "OLLAMA_URI" THEN call'.selectedProvider.URI
    ELSE call'.selectedProvider.APIKey

\* C28: no invocation unsets or restores a variable. An invocation that
\* reaches the construction of the client, whether that succeeds or fails,
\* leaves its provider's variables at its own api_key and uri, the empty
\* string included; one that does not reach it leaves the environment as it
\* was. So each variable holds the value of the latest such invocation.
C28_LatestValueStays ==
    [][/\ DOMAIN env \subseteq DOMAIN env'
       /\ IF ReachedClient
          THEN \A v \in OwnVariables(call'.provider) :
                  v \in DOMAIN env' /\ env'[v] = OwnValue(v)
          ELSE env' = env]_vars

C28_Witness ==
    /\ calls = 2
    /\ call.provider = "openai"
    /\ call.selectedProvider.APIKey = ""
    /\ result.err = "error initializing LLM client: missing the API key"
    /\ DOMAIN env = {"OPENAI_API_KEY", "GOOGLE_API_KEY"}
    /\ env["OPENAI_API_KEY"] = ""
    /\ env["GOOGLE_API_KEY"] = "key1"

----------------------------------------------------------------------------
\* Direct calls of GetAvailableModels.

SupportedNames == <<ProviderOpenAI, ProviderAnthropic, ProviderOllama, ProviderGoogle>>

\* The supported names, their beginnings, the names with a character before
\* or after them, the display names of the descriptors, and other names.
ModelProviderInputs ==
    UNION {{SubSeq(SupportedNames[i], 1, k) : k \in 0..Len(SupportedNames[i])} :
              i \in 1..Len(SupportedNames)}
      \cup {SupportedNames[i] \o c : i \in 1..Len(SupportedNames), c \in {" ", "\n", "s"}}
      \cup {c \o SupportedNames[i] : i \in 1..Len(SupportedNames), c \in {" ", "x"}}
      \cup {Providers[i].Name : i \in 1..Len(Providers)}
      \cup {"OPENAI", "cohere", "mistral", "gpt-4o", "llama3", "azure"}

InitModels ==
    /\ env = [v \in {} |-> ""]
    /\ rulesFile = [state |-> "absent", content |-> ""]
    /\ call = IdleCall
    /\ trace = <<>>
    /\ result = IdleResult
    /\ calls = 0
    /\ td = IdleTd
    /\ configFile = IdleConfigFile
    /\ run = IdleRun
    /\ models \in {[provider |-> name, done |-> FALSE, ret |-> <<>>] :
                      name \in ModelProviderInputs}

\* One call GetAvailableModels(models.provider).
CallGetAvailableModels ==
    /\ ~models.done
    /\ models' = [models EXCEPT !.done = TRUE,
                                !.ret = GetAvailableModels(models.provider)]
    /\ UNCHANGED <<env, rulesFile, call, trace, result, calls, td, configFile, run>>

NextModels == CallGetAvailableModels

SpecModels == InitModels /\ [][NextModels]_vars

\* C18: GetAvailableModels returns at least one model for openai, anthropic,
\* ollama and google, and none for any other name.
C18_ModelsPerProvider ==
    models.done =>
        /\ \A i \in 1..Len(SupportedNames) :
              models.provider = SupportedNames[i] => Len(models.ret) > 0
        /\ (\A i \in 1..Len(SupportedNames) : models.provider # SupportedNames[i])
              => Len(models.ret) = 0

C18_Witness ==
    /\ models.done
    /\ models.provider = "google"
    /\ Len(models.ret) = 3
    /\ models.ret[1] = "gemini-2.5-flash-lite"

====
